---- MODULE Spec2Model ----
(***************************************************************************)
(* A model of docker_interface.py: the shell session protocol of           *)
(* ContainerInterface.open_shell and ShellInterface (sentinel prompt,      *)
(* quoting, send/wait state machine, error classification) and the         *)
(* temporary-file exchange of ContainerInterface.                          *)
(*                                                                         *)
(* Text is a sequence of character codes (Python's ord).  Fixed words of   *)
(* the source that are never inspected character by character ("stty       *)
(* -echo", "cat ", ...) are single codes above the Unicode range.          *)
(***************************************************************************)
EXTENDS Integers, Sequences, FiniteSets, TLC

VARIABLES
    \* ---- the caller and the module (Spec) ----
    pc,         \* where the module stands (see the actions)
    session,    \* the ShellInterface open_shell returned: [pipe, prompt], or NoSession
    call,       \* the run_command_blocking call in flight or last made
    nleft,      \* continuation prompts __send_command still awaits
    xi,         \* how many extra_inputs have been written
    exc,        \* the pexpect exception of the current operation, if any
    outcome,    \* what the last operation returned or raised
    callNo,     \* number of ShellInterface calls started
    \* ---- the pexpect spawn object ----
    buf,        \* output of the stream not yet consumed by a match
    before,     \* pipe.before
    after,      \* pipe.after
    sent,       \* what the current operation has written to the stream
    killed,     \* pipe.kill(SIGKILL) was called
    \* ---- the remote shell behind the stream ----
    shAlive,    \* the process runs and the stream is open
    shState,    \* "prompting" | "reading" | "asking"
    shPS1,      \* the prompt variable
    shCont,     \* the next prompt is the continuation prompt
    shEcho,     \* terminal echo
    shAcc,      \* lines of an unfinished command
    shIn,       \* input written to the stream and not yet read
    files,      \* the container's files that the model follows
    \* ---- history kept for the properties ----
    hBuf,       \* buf as the last successful wait found it
    hMatches,   \* successful waits of the current operation
    hFailedAt,  \* callNo of the first call that raised, 0 when none did
    hFailedKind, \* the kind of exception that call raised, "none" when none did
    hKillCalls, \* number of kill() calls the caller made
    hEcho,      \* text of the last echo_file_to_container that returned
    hOld,       \* how many characters at the head of buf were there before the command line was written
    hAcks,      \* continuation prompts consumed since the command line was written
    \* ---- read/write_binary_file_with_temp (SpecTemp) ----
    tpc,        \* where the call stands
    targs,      \* the call: [op, path, data, temp_dir]
    tmpfile,    \* what the host holds at tmp_filename
    cfile,      \* what the container holds at the path of the call
    tflight,    \* the exception that left the try block, if any
    tresult,    \* the local variable result
    tout,       \* what the call returned or raised
    tcp,        \* the host paths the copy subprocess was run with
    \* ---- quote_string exercised alone (SpecQuote) ----
    qpc,        \* "in" | "quoted" | "evaluated"
    qs,         \* the argument s
    qout,       \* quote_string(s)
    qval,       \* the word bash makes of qout
    \* ---- two sessions side by side (SpecPair) ----
    ss,         \* per session: the ShellInterface and its call in flight
    pipes,      \* per PopenSpawn object: the stream and the shell behind it
    cname,      \* per session: the container it was opened on
    cfs,        \* per container: its files
    solo        \* per session: the same calls made with no other session

callerVars == <<pc, session, call, nleft, xi, exc, outcome, callNo>>
pipeVars == <<buf, before, after, sent, killed>>
shellVars == <<shAlive, shState, shPS1, shCont, shEcho, shAcc, shIn, files>>
histVars == <<hBuf, hMatches, hFailedAt, hFailedKind, hKillCalls, hEcho, hOld, hAcks>>
sessVars == <<callerVars, pipeVars, shellVars, histVars>>
quoteVars == <<qpc, qs, qout, qval>>
tempVars == <<tpc, targs, tmpfile, cfile, tflight, tresult, tout, tcp>>
pairVars == <<ss, pipes, cname, cfs, solo>>
vars == <<sessVars, quoteVars, tempVars, pairVars>>
notSessVars == <<quoteVars, tempVars, pairVars>>
notQuoteVars == <<sessVars, tempVars, pairVars>>
notTempVars == <<sessVars, quoteVars, pairVars>>
notPairVars == <<sessVars, quoteVars, tempVars>>

-----------------------------------------------------------------------------
(* Character codes *)

NUL == 0
TAB == 9
LF == 10
CR == 13
SPACE == 32
DQUOTE == 34
HASH == 35
DOLLAR == 36
QUOTE == 39
DIGIT0 == 48
GT == 62
BACKSLASH == 92
CH_A == 65
CH_K == 107
CH_O == 111
DASH == 45
SLASH == 47
COLON == 58
CH_HIGH == 38175

\* range(32) of quote_string
NControl == 32

-----------------------------------------------------------------------------
(* Python string primitives *)

\* s[i:] with a 1-based i
Drop(s, i) == SubSeq(s, i, Len(s))

StartsAt(s, i, sub) ==
    /\ i + Len(sub) - 1 <= Len(s)
    /\ \A k \in 1..Len(sub) : s[i + k - 1] = sub[k]

\* str.find(sub, start): 0-based index of the first occurrence at or after
\* start, -1 when there is none
PyFind(s, sub, start) ==
    LET hits == {i \in start..(Len(s) - Len(sub)) : StartsAt(s, i + 1, sub)}
    IN  IF hits = {} THEN -1 ELSE CHOOSE i \in hits : \A j \in hits : i <= j

\* str.replace(old, new) for a non-empty old: left to right, non-overlapping
RECURSIVE PyReplace(_, _, _)
PyReplace(s, old, new) ==
    IF s = <<>> THEN <<>>
    ELSE IF StartsAt(s, 1, old)
         THEN new \o PyReplace(Drop(s, Len(old) + 1), old, new)
         ELSE <<s[1]>> \o PyReplace(Drop(s, 2), old, new)

\* oct(i)[2:].zfill(3) for 0 <= i < 512
Oct3(i) == <<DIGIT0 + (i \div 64), DIGIT0 + ((i \div 8) % 8), DIGIT0 + (i % 8)>>

-----------------------------------------------------------------------------
(* ShellInterface.quote_string *)

\* the replacement of chr(i): '$'\ooo''
ControlEscape(i) ==
    <<QUOTE, DOLLAR, QUOTE, BACKSLASH>> \o Oct3(i) \o <<QUOTE, QUOTE>>

\* for i in range(from, 32): s = s.replace(chr(i), ...)
RECURSIVE EscapeControls(_, _)
EscapeControls(s, from) ==
    IF from >= NControl THEN s
    ELSE EscapeControls(PyReplace(s, <<from>>, ControlEscape(from)), from + 1)

quote_string(s) ==
    LET s1 == PyReplace(s, <<QUOTE>>, <<QUOTE, DQUOTE, QUOTE, DQUOTE, QUOTE>>)
        s2 == EscapeControls(s1, 0)
    IN  <<QUOTE>> \o s2 \o <<QUOTE>>

-----------------------------------------------------------------------------
(* The target shell (/bin/bash) reading one word *)

IsOctDigit(c) == c >= DIGIT0 /\ c <= DIGIT0 + 7

\* a bash string is NUL-terminated: what follows a NUL is lost
RECURSIVE TruncNul(_)
TruncNul(s) ==
    IF s = <<>> \/ s[1] = NUL THEN <<>> ELSE <<s[1]>> \o TruncNul(Drop(s, 2))

\* number of octal digits (at most 3) of a \ooo escape starting at w[i]
OctLen(w, i) ==
    IF i <= Len(w) /\ IsOctDigit(w[i])
    THEN IF i + 1 <= Len(w) /\ IsOctDigit(w[i + 1])
         THEN IF i + 2 <= Len(w) /\ IsOctDigit(w[i + 2]) THEN 3 ELSE 2
         ELSE 1
    ELSE 0

RECURSIVE OctVal(_, _, _)
OctVal(w, i, n) ==
    IF n = 0 THEN 0 ELSE 8 * OctVal(w, i, n - 1) + (w[i + n - 1] - DIGIT0)

\* the body of a $'...' segment from w[i] up to its closing quote:
\* [val |-> decoded characters, next |-> index after the closing quote]
RECURSIVE AnsiSeg(_, _)
AnsiSeg(w, i) ==
    IF i > Len(w) THEN [val |-> <<>>, next |-> i]
    ELSE IF w[i] = QUOTE THEN [val |-> <<>>, next |-> i + 1]
    ELSE IF w[i] = BACKSLASH /\ OctLen(w, i + 1) > 0
         THEN LET n == OctLen(w, i + 1)
                  r == AnsiSeg(w, i + 1 + n)
              IN  [val |-> <<OctVal(w, i + 1, n) % 256>> \o r.val, next |-> r.next]
         ELSE LET r == AnsiSeg(w, i + 1)
              IN  [val |-> <<w[i]>> \o r.val, next |-> r.next]

\* the value of the word w read from w[i] in mode "plain" | "sq" | "dq"
RECURSIVE BashWordFrom(_, _, _)
BashWordFrom(w, i, mode) ==
    IF i > Len(w) THEN <<>>
    ELSE IF mode = "sq"
         THEN IF w[i] = QUOTE THEN BashWordFrom(w, i + 1, "plain")
              ELSE <<w[i]>> \o BashWordFrom(w, i + 1, "sq")
    ELSE IF mode = "dq"
         THEN IF w[i] = DQUOTE THEN BashWordFrom(w, i + 1, "plain")
              ELSE <<w[i]>> \o BashWordFrom(w, i + 1, "dq")
    ELSE IF w[i] = QUOTE THEN BashWordFrom(w, i + 1, "sq")
    ELSE IF w[i] = DQUOTE THEN BashWordFrom(w, i + 1, "dq")
    ELSE IF w[i] = DOLLAR /\ i < Len(w) /\ w[i + 1] = QUOTE
         THEN LET r == AnsiSeg(w, i + 2)
              IN  TruncNul(r.val) \o BashWordFrom(w, r.next, "plain")
    ELSE <<w[i]>> \o BashWordFrom(w, i + 1, "plain")

BashWord(w) == BashWordFrom(w, 1, "plain")

\* how many characters of w stand outside every quoted segment
RECURSIVE UnquotedFrom(_, _, _)
UnquotedFrom(w, i, mode) ==
    IF i > Len(w) THEN 0
    ELSE IF mode = "sq"
         THEN UnquotedFrom(w, i + 1, IF w[i] = QUOTE THEN "plain" ELSE "sq")
    ELSE IF mode = "dq"
         THEN UnquotedFrom(w, i + 1, IF w[i] = DQUOTE THEN "plain" ELSE "dq")
    ELSE IF w[i] = QUOTE THEN UnquotedFrom(w, i + 1, "sq")
    ELSE IF w[i] = DQUOTE THEN UnquotedFrom(w, i + 1, "dq")
    ELSE IF w[i] = DOLLAR /\ i < Len(w) /\ w[i + 1] = QUOTE
         THEN UnquotedFrom(w, AnsiSeg(w, i + 2).next, "plain")
    ELSE 1 + UnquotedFrom(w, i + 1, "plain")

\* whether every quoted segment of w is closed
RECURSIVE ClosedFrom(_, _, _)
ClosedFrom(w, i, mode) ==
    IF i > Len(w) THEN mode = "plain"
    ELSE IF mode = "sq"
         THEN ClosedFrom(w, i + 1, IF w[i] = QUOTE THEN "plain" ELSE "sq")
    ELSE IF mode = "dq"
         THEN ClosedFrom(w, i + 1, IF w[i] = DQUOTE THEN "plain" ELSE "dq")
    ELSE IF w[i] = QUOTE THEN ClosedFrom(w, i + 1, "sq")
    ELSE IF w[i] = DQUOTE THEN ClosedFrom(w, i + 1, "dq")
    ELSE IF w[i] = DOLLAR /\ i < Len(w) /\ w[i + 1] = QUOTE
         THEN LET r == AnsiSeg(w, i + 2)
              IN  /\ r.next - 1 <= Len(w)
                  /\ w[r.next - 1] = QUOTE
                  /\ ClosedFrom(w, r.next, "plain")
    ELSE ClosedFrom(w, i + 1, "plain")

-----------------------------------------------------------------------------
(* Words of the source kept whole *)

W_STTY == 2000001       \* stty -echo
W_PS1_EQ == 2000002     \* PS1=
W_CONDA == 2000003      \* conda config --set changeps1 False
W_SI_NAME == 2000004    \* ShellInterface@<container name>
W_ECHO_N == 2000005     \* echo -n ""
W_TAIL_TO == 2000006    \* | tail -c +2 >
W_CAT == 2000007        \* cat
W_ECHO_OK == 2000008    \* echo ok
W_PROG == 2000009       \* some program that reads no input
W_ASK == 2000010        \* some program that asks and reads one line
W_FILE == 2000011       \* a file name
W_NOFILE == 2000012     \* cat's complaint about a missing file
W_RE_PROMPT == 2000013  \* the pattern [\#\$] followed by a space
W_NOTFOUND == 2000014   \* bash's complaint about a command it cannot find
\* messages of the exceptions
M_INIT_TIMEOUT == 2000021   \* Timeout while initializing shell.
M_OPEN_FAILED == 2000022    \* Failed to open shell:\n
M_SEND_TIMEOUT == 2000023   \* Timeout waiting for multiline prompt when sending command:\n
M_SEND_CLOSED == 2000024    \* Shell closed while sending command:\n
M_WAIT_TIMEOUT == 2000025   \* Timeout waiting for next shell prompt when executing command:\n
M_WAIT_CLOSED == 2000026    \* Shell closed while executing command:\n
M_NOT_STRING == 2000027     \* Failed to run shell command, the returned result is not a string.
M_STREAMING == 2000028      \* Streaming the file is not allowed.
M_SPECIFIER == 2000029      \* Host path with a container specifier is not allowed.
M_COMMAND_FAILED == 2000030 \* Error creating container:\n
M_REQUESTED == 2000031      \* The requested file `
M_IS_DIRECTORY == 2000032   \* ` is a directory
\* words of the host and of the copy subprocess
W_TMP == 2000041        \* the directory name tmp
W_TMP_NAME == 2000042   \* self.name + '__tmp-' + sixteen random characters
W_DATA == 2000043       \* a name in the container
W_STDERR == 2000044     \* what the copy subprocess wrote to stderr

\* top_level_ps1 = 'ShellInterface@' + self.name + '$ '
top_level_ps1 == <<W_SI_NAME, DOLLAR, SPACE>>

\* the continuation prompt __send_command expects
PS2 == <<GT, SPACE>>

\* the prompt of a shell just started
DefaultPS1 == <<HASH, SPACE>>

-----------------------------------------------------------------------------
(* pexpect: before / after values and the two searches *)

PStr(t) == [str |-> TRUE, text |-> t, exc |-> "none"]
PNone == [str |-> FALSE, text |-> <<>>, exc |-> "None"]
PExc(k) == [str |-> FALSE, text |-> <<>>, exc |-> k]

\* expect_exact(pat): 0-based place of the first occurrence in b, or -1
ExactIdx(b, pat) == PyFind(b, pat, 0)

\* expect(r'[\#\$] '): 0-based place of the first match in b, or -1
RegexIdx(b) ==
    LET hits == {i \in 0..(Len(b) - 2) :
                    b[i + 1] \in {HASH, DOLLAR} /\ b[i + 2] = SPACE}
    IN  IF hits = {} THEN -1 ELSE CHOOSE i \in hits : \A j \in hits : i <= j

\* the pattern a wait looks for: RE_PROMPT stands for the regular expression
RE_PROMPT == <<W_RE_PROMPT>>

PatIdx(b, pat) == IF pat = RE_PROMPT THEN RegexIdx(b) ELSE ExactIdx(b, pat)

PatLen(pat) == IF pat = RE_PROMPT THEN 2 ELSE Len(pat)

\* what a successful wait leaves in (before, after, buffer)
MatchBefore(b, pat) == SubSeq(b, 1, PatIdx(b, pat))
MatchAfter(b, pat) == SubSeq(b, PatIdx(b, pat) + 1, PatIdx(b, pat) + PatLen(pat))
MatchRest(b, pat) == Drop(b, PatIdx(b, pat) + PatLen(pat) + 1)

\* sendline(s): s and os.linesep
SendLine(s) == s \o <<LF>>

\* a send that ends its argument with a line end
SendRawWithLineEnd(s) == s \o <<LF>>

\* send(s): s as it is
SendRaw(s) == s

-----------------------------------------------------------------------------
(* ShellInterface: commands *)

StrCmd(t) == [list |-> FALSE, text |-> t, toks |-> <<>>]
ListCmd(ts) == [list |-> TRUE, text |-> <<>>, toks |-> ts]

\* ' '.join(toks)
RECURSIVE JoinRaw(_)
JoinRaw(toks) ==
    IF toks = <<>> THEN <<>>
    ELSE IF Len(toks) = 1 THEN toks[1]
    ELSE toks[1] \o <<SPACE>> \o JoinRaw(Tail(toks))

\* ' '.join(map(quote_string, toks))
RECURSIVE JoinQuoted(_)
JoinQuoted(toks) ==
    IF toks = <<>> THEN <<>>
    ELSE IF Len(toks) = 1 THEN quote_string(toks[1])
    ELSE quote_string(toks[1]) \o <<SPACE>> \o JoinQuoted(Tail(toks))

\* a list command joined with its tokens as they are
command_to_string_raw(command) ==
    IF command.list THEN JoinRaw(command.toks) ELSE command.text

command_to_string(command) ==
    IF command.list THEN JoinQuoted(command.toks) ELSE command.text

\* a count of the LF characters alone
n_newlines_lf_only(text) == Cardinality({i \in 1..Len(text) : text[i] = LF})

\* len([c for c in command if c in '\r\n'])
n_newlines(text) == Cardinality({i \in 1..Len(text) : text[i] \in {CR, LF}})

\* 'echo -n "" ' + quote_string(content) + ' | tail -c +2 > ' + quote_string(filename)
EchoFileCommand(filename, content) ==
    <<W_ECHO_N>> \o quote_string(content) \o <<W_TAIL_TO>> \o quote_string(filename)

\* 'cat ' + quote_string(filename)
CatFileCommand(filename) == <<W_CAT>> \o quote_string(filename)

\* before_text.replace('\r\n', '\n')
NormalizeOutput(t) == PyReplace(t, <<CR, LF>>, <<LF>>)

\* a strip that removes every trailing LF
RECURSIVE StripEveryFinal(_, _)
StripEveryFinal(t, strip) ==
    IF strip /\ t # <<>> /\ t[Len(t)] = LF
    THEN StripEveryFinal(SubSeq(t, 1, Len(t) - 1), strip) ELSE t

\* if strip_final_newline and before_text[-1:] == '\n': return before_text[:-1]
StripFinal(t, strip) ==
    IF strip /\ t # <<>> /\ t[Len(t)] = LF THEN SubSeq(t, 1, Len(t) - 1) ELSE t

\* lines 336-344 of run_command_blocking, for a before that is a string
CommandResult(beforeText, strip) == StripFinal(NormalizeOutput(beforeText), strip)

-----------------------------------------------------------------------------
(* Exceptions and results *)

NoOutcome == [kind |-> "none", text |-> <<>>]
Returned(t) == [kind |-> "return", text |-> t]
Raised(k, msg) == [kind |-> k, text |-> msg]

NoExc == [kind |-> "none", phase |-> "none", sent |-> 0]

\* except clauses whose ShellFailure leaves the output out
OpenShellExceptNoOutput(kind, beforeText) ==
    IF kind = "TIMEOUT"
    THEN [kill |-> TRUE, raise |-> Raised("ShellTimeout", <<M_INIT_TIMEOUT>>)]
    ELSE [kill |-> TRUE, raise |-> Raised("ShellFailure", <<M_OPEN_FAILED>>)]

\* except clauses that raise and leave the pipe as it is
OpenShellExceptNoKill(kind, beforeText) ==
    IF kind = "TIMEOUT"
    THEN [kill |-> FALSE, raise |-> Raised("ShellTimeout", <<M_INIT_TIMEOUT>>)]
    ELSE [kill |-> FALSE, raise |-> Raised("ShellFailure", <<M_OPEN_FAILED>> \o beforeText)]

\* except clauses of open_shell: the exception raised and whether the pipe is
\* killed first
OpenShellExcept(kind, beforeText) ==
    IF kind = "TIMEOUT"
    THEN [kill |-> TRUE, raise |-> Raised("ShellTimeout", <<M_INIT_TIMEOUT>>)]
    ELSE [kill |-> TRUE, raise |-> Raised("ShellFailure", <<M_OPEN_FAILED>> \o beforeText)]

\* except clauses whose timeout message leaves the command out
SendCommandExceptNoCommand(kind, command) ==
    IF kind = "TIMEOUT"
    THEN [kill |-> FALSE, raise |-> Raised("ShellTimeout", <<M_SEND_TIMEOUT>>)]
    ELSE [kill |-> FALSE, raise |-> Raised("ShellFailure", <<M_SEND_CLOSED>> \o command)]

\* except clauses that kill the pipe before they raise
SendCommandExceptKill(kind, command) ==
    IF kind = "TIMEOUT"
    THEN [kill |-> TRUE, raise |-> Raised("ShellTimeout", <<M_SEND_TIMEOUT>> \o command)]
    ELSE [kill |-> TRUE, raise |-> Raised("ShellFailure", <<M_SEND_CLOSED>> \o command)]

\* except clauses of __send_command
SendCommandExcept(kind, command) ==
    IF kind = "TIMEOUT"
    THEN [kill |-> FALSE, raise |-> Raised("ShellTimeout", <<M_SEND_TIMEOUT>> \o command)]
    ELSE [kill |-> FALSE, raise |-> Raised("ShellFailure", <<M_SEND_CLOSED>> \o command)]

\* except clauses that report every failed wait as a timeout
WaitNextPromptExceptAllTimeout(kind, command) ==
    [kill |-> FALSE, raise |-> Raised("ShellTimeout", <<M_WAIT_TIMEOUT>> \o command)]

\* except clauses of __wait_next_prompt
WaitNextPromptExcept(kind, command) ==
    IF kind = "TIMEOUT"
    THEN [kill |-> FALSE, raise |-> Raised("ShellTimeout", <<M_WAIT_TIMEOUT>> \o command)]
    ELSE [kill |-> FALSE, raise |-> Raised("ShellFailure", <<M_WAIT_CLOSED>> \o command)]

\* ShellInterface.__init__
NoSession == [pipe |-> "none", prompt |-> <<>>]
ShellInterface(pipe, prompt) == [pipe |-> pipe, prompt |-> prompt]

\* a raise that records in the object that it must not be used again
SessionMarkedUnusable(s) == [s EXCEPT !.pipe = "unusable"]

\* a raise in run_command_blocking changes no field of the object
SessionAfterRaise(s) == s

-----------------------------------------------------------------------------
(* The remote shell and its terminal *)

\* the terminal writes LF as CR LF
RECURSIVE Onlcr(_)
Onlcr(t) ==
    IF t = <<>> THEN <<>>
    ELSE (IF t[1] = LF THEN <<CR, LF>> ELSE <<t[1]>>) \o Onlcr(Drop(t, 2))

\* the place (1-based) of the first line end of t, 0 when t holds none
FirstEol(t) ==
    LET ends == {i \in 1..Len(t) : t[i] \in {CR, LF}}
    IN  IF ends = {} THEN 0 ELSE CHOOSE i \in ends : \A j \in ends : i <= j

NoFile == <<W_NOFILE>>

\* what programs may print (before the terminal rewrites line ends)
ProgramOutputs ==
    { <<>>, <<CH_A, LF, LF>>, <<CH_A, CR, LF>> }

\* what the conda line may print: nothing, or a complaint
CondaOutputs == { <<>>, <<CH_A, LF>> }

ShellEffect(out, ps1, echo, fs, ask) ==
    [out |-> out, ps1 |-> ps1, echo |-> echo, files |-> fs, ask |-> ask]

\* the effects the complete command text c may have on a shell whose
\* prompt variable, echo flag and files are ps1, echo, fs
ShellRun(c, ps1, echo, fs) ==
    IF c = <<>> THEN {ShellEffect(<<>>, ps1, echo, fs, FALSE)}
    ELSE IF c = <<W_STTY>> THEN {ShellEffect(<<>>, ps1, FALSE, fs, FALSE)}
    ELSE IF c[1] = W_PS1_EQ
         THEN {ShellEffect(<<>>, BashWord(Drop(c, 2)), echo, fs, FALSE)}
    ELSE IF c = <<W_CONDA>>
         THEN {ShellEffect(o, ps1, echo, fs, FALSE) : o \in CondaOutputs}
    ELSE IF c = <<W_ECHO_OK>>
         THEN {ShellEffect(<<CH_O, CH_K, LF>>, ps1, echo, fs, FALSE)}
    ELSE IF c[1] = W_ECHO_N /\ PyFind(c, <<W_TAIL_TO>>, 0) > 0
         THEN LET cut == PyFind(c, <<W_TAIL_TO>>, 0)
                  printed == <<SPACE>> \o BashWord(SubSeq(c, 2, cut))
                  name == BashWord(Drop(c, cut + 2))
              IN  {ShellEffect(<<>>, ps1, echo,
                               [fs EXCEPT ![name] = Drop(printed, 2)], FALSE)}
    ELSE IF c[1] = W_CAT
         THEN LET name == BashWord(Drop(c, 2))
              IN  IF name \in DOMAIN fs /\ fs[name] # NoFile
                  THEN {ShellEffect(fs[name], ps1, echo, fs, FALSE)}
                  ELSE {ShellEffect(<<W_NOFILE, LF>>, ps1, echo, fs, FALSE)}
    ELSE IF c[1] = W_ASK
         THEN {ShellEffect(<<CH_A>>, ps1, echo, fs, TRUE)}
    ELSE IF c[1] # W_PROG
         THEN {ShellEffect(<<W_NOTFOUND, LF>>, ps1, echo, fs, FALSE)}
    ELSE {ShellEffect(o, ps1, echo, fs, FALSE) : o \in ProgramOutputs}

-----------------------------------------------------------------------------
(* What the caller may do: bounds of the model *)

MaxCalls == 2

FileNames == { <<W_FILE>> }

\* texts given to echo_file_to_container
Texts ==
    { <<>>, <<CH_A, LF>>, <<CH_A, CR, LF, CH_A>>, <<QUOTE, CR, LF, LF>>,
      <<NUL, CH_A>> }

RunArgs(c, x, st) == [command |-> c, extra_inputs |-> x, strip |-> st]

\* arguments given to run_command_blocking
RunCalls ==
    { RunArgs(StrCmd(<<W_ECHO_OK>>), <<>>, TRUE),
      RunArgs(StrCmd(<<W_PROG>>), <<>>, TRUE),
      RunArgs(StrCmd(<<W_PROG>>), << <<CH_K, LF>> >>, TRUE),
      RunArgs(StrCmd(<<W_ASK, QUOTE, LF, QUOTE>>), << <<CH_K>>, <<LF>> >>, TRUE),
      RunArgs(StrCmd(<<W_PROG, QUOTE, LF, QUOTE>>), <<>>, TRUE),
      RunArgs(StrCmd(<<W_PROG, QUOTE, CR, LF, QUOTE>>), <<>>, TRUE),
      RunArgs(ListCmd(<< <<W_PROG>>, <<CH_A, LF>> >>), <<>>, FALSE),
      RunArgs(ListCmd(<< <<W_PROG>>, <<CR, LF, QUOTE>> >>), <<>>, TRUE) }

\* what a caller that uses a session again after it raised calls it with
RetryCalls == { RunArgs(StrCmd(<<W_ECHO_OK>>), <<>>, TRUE) }

NoCall == [op |-> "none", command |-> StrCmd(<<>>), extra_inputs |-> <<>>,
           strip |-> TRUE, arg |-> <<>>]

\* the text __send_command and __wait_next_prompt make of the call's command
CallText == command_to_string(call.command)

-----------------------------------------------------------------------------
(* Spec: one container, one open_shell, then calls on the ShellInterface *)

SessInit ==
    /\ pc = "start"
    /\ session = NoSession
    /\ call = NoCall
    /\ nleft = 0
    /\ xi = 0
    /\ exc = NoExc
    /\ outcome = NoOutcome
    /\ callNo = 0
    /\ buf = <<>>
    /\ before = PNone
    /\ after = PNone
    /\ sent = <<>>
    /\ killed = FALSE
    /\ shAlive = FALSE
    /\ shState = "prompting"
    /\ shPS1 = DefaultPS1
    /\ shCont = FALSE
    /\ shEcho = TRUE
    /\ shAcc = <<>>
    /\ shIn = <<>>
    /\ files = [f \in FileNames |-> NoFile]
    /\ hBuf = <<>>
    /\ hMatches = 0
    /\ hFailedAt = 0
    /\ hFailedKind = "none"
    /\ hKillCalls = 0
    /\ hEcho = [set |-> FALSE, text |-> <<>>]
    /\ hOld = 0
    /\ hAcks = 0

QuoteIdle ==
    /\ qpc = "off"
    /\ qs = <<>>
    /\ qout = <<>>
    /\ qval = <<>>

PairIdle ==
    /\ ss = <<>>
    /\ pipes = <<>>
    /\ cname = <<>>
    /\ cfs = <<>>
    /\ solo = <<>>

\* ---- the stream -------------------------------------------------------

\* a successful wait for pat: before, after and the buffer
Matched(pat) ==
    /\ PatIdx(buf, pat) # -1
    /\ before' = PStr(MatchBefore(buf, pat))
    /\ after' = PStr(MatchAfter(buf, pat))
    /\ buf' = MatchRest(buf, pat)
    /\ hBuf' = buf
    /\ hMatches' = hMatches + 1

\* a wait for pat that ends in TIMEOUT (the stream is open and silent) or
\* EOF (the stream is closed and holds no match)
ExpectFails(kind, pat, phase) ==
    /\ PatIdx(buf, pat) = -1
    /\ IF kind = "TIMEOUT" THEN shAlive ELSE ~shAlive
    /\ before' = PStr(buf)
    /\ after' = PExc(kind)
    /\ buf' = IF kind = "EOF" THEN <<>> ELSE buf
    /\ exc' = [kind |-> kind, phase |-> phase, sent |-> Len(sent)]

\* bytes written to an open stream
Written(bytes) ==
    /\ shAlive
    /\ sent' = sent \o bytes
    /\ shIn' = shIn \o bytes

\* a write to a closed stream raises BrokenPipeError, which nothing catches
BrokenPipe(failedPc) ==
    /\ ~shAlive
    /\ outcome' = Raised("BrokenPipeError", <<>>)
    /\ pc' = failedPc
    /\ UNCHANGED <<sent, shIn>>

\* the remote process is gone, and with it what it held
Dead ==
    /\ shAlive' = FALSE
    /\ shState' = "dead"
    /\ shPS1' = <<>>
    /\ shCont' = FALSE
    /\ shEcho' = FALSE
    /\ shAcc' = <<>>
    /\ shIn' = <<>>

\* ---- ContainerInterface.open_shell ------------------------------------

OpenShellSpawn ==
    /\ UNCHANGED notSessVars
    /\ pc = "start"
    /\ pc' = "boot1"
    /\ shAlive' = TRUE
    /\ UNCHANGED <<session, call, nleft, xi, exc, outcome, callNo, pipeVars,
                   shState, shPS1, shCont, shEcho, shAcc, shIn, files, histVars>>

\* a first line that leaves the terminal's echo on
SttyLineEchoLeftOn == <<>>

\* line 224: pipe.sendline('stty -echo')
SttyLine == <<W_STTY>>

\* line 219 matched; line 224
BootDefaultPrompt ==
    /\ UNCHANGED notSessVars
    /\ pc = "boot1"
    /\ Matched(RE_PROMPT)
    /\ \/ Written(SendLine(SttyLine)) /\ pc' = "boot2" /\ UNCHANGED outcome
       \/ BrokenPipe("failed")
    /\ UNCHANGED <<session, call, nleft, xi, exc, callNo, killed,
                   shAlive, shState, shPS1, shCont, shEcho, shAcc, files,
                   hFailedAt, hFailedKind, hKillCalls, hEcho, hOld, hAcks>>

\* the three lines with the sentinel set first
BootLinesSentinelFirst ==
    SendLine(<<W_PS1_EQ, DQUOTE>> \o top_level_ps1 \o <<DQUOTE>>)
    \o SendLine(<<W_PS1_EQ, DQUOTE, DQUOTE>>)
    \o SendLine(<<W_CONDA>>)

\* lines 227-231
BootLines ==
    SendLine(<<W_PS1_EQ, DQUOTE, DQUOTE>>)
    \o SendLine(<<W_CONDA>>)
    \o SendLine(<<W_PS1_EQ, DQUOTE>> \o top_level_ps1 \o <<DQUOTE>>)

\* line 225 matched; lines 227-231
BootEchoOff ==
    /\ UNCHANGED notSessVars
    /\ pc = "boot2"
    /\ Matched(RE_PROMPT)
    /\ \/ Written(BootLines) /\ pc' = "boot3" /\ UNCHANGED outcome
       \/ BrokenPipe("failed")
    /\ UNCHANGED <<session, call, nleft, xi, exc, callNo, killed,
                   shAlive, shState, shPS1, shCont, shEcho, shAcc, files,
                   hFailedAt, hFailedKind, hKillCalls, hEcho, hOld, hAcks>>

\* line 235 matched; line 244
BootSentinel ==
    /\ UNCHANGED notSessVars
    /\ pc = "boot3"
    /\ Matched(top_level_ps1)
    /\ session' = ShellInterface("pipe", top_level_ps1)
    /\ outcome' = Returned(<<>>)
    /\ pc' = "idle"
    /\ UNCHANGED <<call, nleft, xi, exc, callNo, sent, killed, shellVars,
                   hFailedAt, hFailedKind, hKillCalls, hEcho, hOld, hAcks>>

BootPattern == IF pc = "boot3" THEN top_level_ps1 ELSE RE_PROMPT

BootTimeout ==
    /\ UNCHANGED notSessVars
    /\ pc \in {"boot1", "boot2", "boot3"}
    /\ ExpectFails("TIMEOUT", BootPattern, pc)
    /\ pc' = "boot_except"
    /\ UNCHANGED <<session, call, nleft, xi, outcome, callNo, sent, killed,
                   shellVars, histVars>>

BootEof ==
    /\ UNCHANGED notSessVars
    /\ pc \in {"boot1", "boot2", "boot3"}
    /\ ExpectFails("EOF", BootPattern, pc)
    /\ pc' = "boot_except"
    /\ UNCHANGED <<session, call, nleft, xi, outcome, callNo, sent, killed,
                   shellVars, histVars>>

\* lines 236-242
OpenShellRaise ==
    /\ UNCHANGED notSessVars
    /\ pc = "boot_except"
    /\ LET h == OpenShellExcept(exc.kind, before.text)
       IN  /\ killed' = (killed \/ h.kill)
           /\ IF h.kill THEN Dead
              ELSE UNCHANGED <<shAlive, shState, shPS1, shCont, shEcho, shAcc, shIn>>
           /\ outcome' = h.raise
    /\ pc' = "failed"
    /\ UNCHANGED <<session, call, nleft, xi, exc, callNo, buf, before, after,
                   sent, files, histVars>>

\* ---- the caller ---------------------------------------------------------

Started(c) ==
    /\ UNCHANGED notSessVars
    /\ pc = "idle"
    /\ callNo < MaxCalls
    /\ call' = c
    /\ callNo' = callNo + 1
    /\ pc' = "gcp"
    /\ nleft' = 0
    /\ xi' = 0
    /\ exc' = NoExc
    /\ outcome' = NoOutcome
    /\ sent' = <<>>
    /\ hBuf' = <<>>
    /\ hMatches' = 0
    /\ UNCHANGED <<session, buf, before, after, killed, shellVars,
                   hFailedAt, hFailedKind, hKillCalls, hEcho, hOld, hAcks>>

\* run_command_blocking(command, extra_inputs, strip_final_newline)
CallRun ==
    \E a \in (IF hFailedAt = 0 THEN RunCalls ELSE RetryCalls) :
        Started([op |-> "run", command |-> a.command,
                 extra_inputs |-> a.extra_inputs, strip |-> a.strip,
                 arg |-> <<>>])

\* echo_file_to_container(filename, content)
CallEchoFile ==
    /\ session # NoSession
    /\ \E f \in FileNames, t \in Texts :
           Started([op |-> "echo_file", command |-> StrCmd(EchoFileCommand(f, t)),
                    extra_inputs |-> <<>>, strip |-> TRUE, arg |-> t])

\* cat_file_from_container(filename)
CallCatFile ==
    /\ session # NoSession
    /\ \E f \in FileNames :
           Started([op |-> "cat_file", command |-> StrCmd(CatFileCommand(f)),
                    extra_inputs |-> <<>>, strip |-> FALSE, arg |-> <<>>])

\* ShellInterface.kill, after which the caller lets go of the session
CallKill ==
    /\ UNCHANGED notSessVars
    /\ pc = "idle"
    /\ pc' = "closed"
    /\ killed' = TRUE
    /\ Dead
    /\ hKillCalls' = hKillCalls + 1
    /\ UNCHANGED <<session, call, nleft, xi, exc, outcome, callNo, buf,
                   before, after, sent, files, hBuf, hMatches, hFailedAt, hFailedKind, hEcho, hOld, hAcks>>

\* ---- ShellInterface.run_command_blocking --------------------------------

\* an exception leaves run_command_blocking
Raises(o) ==
    /\ outcome' = o
    /\ pc' = "idle"
    /\ session' = SessionAfterRaise(session)
    /\ hFailedAt' = IF hFailedAt = 0 THEN callNo ELSE hFailedAt
    /\ hFailedKind' = IF hFailedAt = 0 THEN o.kind ELSE hFailedKind

\* __get_command_prompt: one turn of its loop
GetCommandPrompt ==
    /\ UNCHANGED notSessVars
    /\ pc = "gcp"
    /\ IF after.str /\ PyFind(after.text, session.prompt, Len(session.prompt)) # -1
       THEN \/ /\ Matched(session.prompt)
               /\ UNCHANGED <<pc, session, outcome, exc, hFailedAt, hFailedKind>>
            \/ /\ \E kind \in {"TIMEOUT", "EOF"} :
                      /\ ExpectFails(kind, session.prompt, "gcp")
                      /\ Raises(Raised(kind, <<>>))
               /\ UNCHANGED <<hBuf, hMatches>>
       ELSE /\ pc' = "send"
            /\ UNCHANGED <<session, outcome, exc, buf, before, after, histVars>>
    /\ UNCHANGED <<call, nleft, xi, callNo, sent, killed, shellVars,
                   hKillCalls, hEcho, hOld, hAcks>>

\* where run_command_blocking goes once the command line is acknowledged
AfterSend == IF call.extra_inputs = <<>> THEN "wait" ELSE "extra"

\* __send_command, lines 298-300
SendCommand ==
    /\ UNCHANGED notSessVars
    /\ pc = "send"
    /\ hOld' = Len(buf)
    /\ hAcks' = 0
    /\ \/ /\ Written(SendLine(CallText))
          /\ nleft' = n_newlines(CallText)
          /\ pc' = IF n_newlines(CallText) > 0 THEN "cont" ELSE AfterSend
          /\ UNCHANGED <<outcome, session, hFailedAt, hFailedKind>>
       \/ /\ ~shAlive
          /\ Raises(Raised("BrokenPipeError", <<>>))
          /\ UNCHANGED <<sent, shIn, nleft>>
    /\ UNCHANGED <<call, xi, exc, callNo, buf, before, after, killed,
                   shAlive, shState, shPS1, shCont, shEcho, shAcc, files,
                   hBuf, hMatches, hKillCalls, hEcho>>

\* __send_command, line 304 matched
ContinuationPrompt ==
    /\ UNCHANGED notSessVars
    /\ pc = "cont"
    /\ Matched(PS2)
    /\ hOld' = IF hOld > Len(buf) - Len(buf') THEN hOld - (Len(buf) - Len(buf')) ELSE 0
    /\ hAcks' = hAcks + 1
    /\ nleft' = nleft - 1
    /\ pc' = IF nleft = 1 THEN AfterSend ELSE "cont"
    /\ UNCHANGED <<session, call, xi, exc, outcome, callNo, sent, killed,
                   shellVars, hFailedAt, hFailedKind, hKillCalls, hEcho>>

ContinuationTimeout ==
    /\ UNCHANGED notSessVars
    /\ pc = "cont"
    /\ ExpectFails("TIMEOUT", PS2, "send")
    /\ pc' = "send_except"
    /\ UNCHANGED <<session, call, nleft, xi, outcome, callNo, sent, killed,
                   shellVars, histVars>>

ContinuationEof ==
    /\ UNCHANGED notSessVars
    /\ pc = "cont"
    /\ ExpectFails("EOF", PS2, "send")
    /\ pc' = "send_except"
    /\ UNCHANGED <<session, call, nleft, xi, outcome, callNo, sent, killed,
                   shellVars, histVars>>

\* what an except clause of run_command_blocking's helpers does
Handled(h) ==
    /\ killed' = (killed \/ h.kill)
    /\ IF h.kill THEN Dead
       ELSE UNCHANGED <<shAlive, shState, shPS1, shCont, shEcho, shAcc, shIn>>
    /\ Raises(h.raise)

\* __send_command, lines 305-308
SendCommandRaise ==
    /\ UNCHANGED notSessVars
    /\ pc = "send_except"
    /\ Handled(SendCommandExcept(exc.kind, CallText))
    /\ UNCHANGED <<call, nleft, xi, exc, callNo, buf, before, after, sent,
                   files, hBuf, hMatches, hKillCalls, hEcho, hOld, hAcks>>

\* run_command_blocking, lines 332-333: one extra input
ExtraInput ==
    /\ UNCHANGED notSessVars
    /\ pc = "extra"
    /\ \/ /\ Written(SendRaw(call.extra_inputs[xi + 1]))
          /\ xi' = xi + 1
          /\ pc' = IF xi + 1 = Len(call.extra_inputs) THEN "wait" ELSE "extra"
          /\ UNCHANGED <<outcome, session, hFailedAt, hFailedKind>>
       \/ /\ ~shAlive
          /\ Raises(Raised("BrokenPipeError", <<>>))
          /\ UNCHANGED <<sent, shIn, xi>>
    /\ UNCHANGED <<call, nleft, exc, callNo, buf, before, after, killed,
                   shAlive, shState, shPS1, shCont, shEcho, shAcc, files,
                   hBuf, hMatches, hKillCalls, hEcho, hOld, hAcks>>

\* __wait_next_prompt, line 318 matched; run_command_blocking, lines 336-344
NextPrompt ==
    /\ UNCHANGED notSessVars
    /\ pc = "wait"
    /\ Matched(session.prompt)
    /\ IF before'.str
       THEN /\ outcome' = Returned(CommandResult(before'.text, call.strip))
            /\ hEcho' = IF call.op = "echo_file"
                        THEN [set |-> TRUE, text |-> call.arg] ELSE hEcho
            /\ UNCHANGED <<hFailedAt, hFailedKind>>
       ELSE /\ outcome' = Raised("ShellFailure", <<M_NOT_STRING>>)
            /\ hFailedAt' = IF hFailedAt = 0 THEN callNo ELSE hFailedAt
            /\ hFailedKind' = IF hFailedAt = 0 THEN "ShellFailure" ELSE hFailedKind
            /\ UNCHANGED hEcho
    /\ pc' = "idle"
    /\ UNCHANGED <<session, call, nleft, xi, exc, callNo, sent, killed,
                   shellVars, hKillCalls, hOld, hAcks>>

NextPromptTimeout ==
    /\ UNCHANGED notSessVars
    /\ pc = "wait"
    /\ ExpectFails("TIMEOUT", session.prompt, "wait")
    /\ pc' = "wait_except"
    /\ UNCHANGED <<session, call, nleft, xi, outcome, callNo, sent, killed,
                   shellVars, histVars>>

NextPromptEof ==
    /\ UNCHANGED notSessVars
    /\ pc = "wait"
    /\ ExpectFails("EOF", session.prompt, "wait")
    /\ pc' = "wait_except"
    /\ UNCHANGED <<session, call, nleft, xi, outcome, callNo, sent, killed,
                   shellVars, histVars>>

\* __wait_next_prompt, lines 319-323
WaitNextPromptRaise ==
    /\ UNCHANGED notSessVars
    /\ pc = "wait_except"
    /\ Handled(WaitNextPromptExcept(exc.kind, CallText))
    /\ UNCHANGED <<call, nleft, xi, exc, callNo, buf, before, after, sent,
                   files, hBuf, hMatches, hKillCalls, hEcho, hOld, hAcks>>

\* ---- the remote shell ---------------------------------------------------

\* the shell prints its prompt and reads
ShellPrompt ==
    /\ UNCHANGED notSessVars
    /\ shAlive
    /\ shState = "prompting"
    /\ buf' = buf \o (IF shCont THEN PS2 ELSE shPS1)
    /\ shState' = "reading"
    /\ UNCHANGED <<callerVars, before, after, sent, killed, shAlive, shPS1,
                   shCont, shEcho, shAcc, shIn, files, histVars>>

\* the shell reads one line: a command left unfinished by an open quote is
\* continued, a finished one runs
ShellReadLine ==
    /\ UNCHANGED notSessVars
    /\ shAlive
    /\ shState = "reading"
    /\ FirstEol(shIn) > 0
    /\ LET line == SubSeq(shIn, 1, FirstEol(shIn) - 1)
           full == shAcc \o line
           echoed == IF shEcho THEN Onlcr(SendLine(line)) ELSE <<>>
       IN  /\ shIn' = Drop(shIn, FirstEol(shIn) + 1)
           /\ IF ClosedFrom(full, 1, "plain")
              THEN \E e \in ShellRun(full, shPS1, shEcho, files) :
                      /\ buf' = buf \o echoed \o Onlcr(e.out)
                      /\ shPS1' = e.ps1
                      /\ shEcho' = e.echo
                      /\ files' = e.files
                      /\ shState' = IF e.ask THEN "asking" ELSE "prompting"
                      /\ shAcc' = <<>>
                      /\ shCont' = FALSE
              ELSE /\ buf' = buf \o echoed
                   /\ shAcc' = SendLine(full)
                   /\ shCont' = TRUE
                   /\ shState' = "prompting"
                   /\ UNCHANGED <<shPS1, shEcho, files>>
    /\ UNCHANGED <<callerVars, before, after, sent, killed, shAlive, histVars>>

\* a program that asked reads its line of input and ends
ShellProgramRead ==
    /\ UNCHANGED notSessVars
    /\ shAlive
    /\ shState = "asking"
    /\ FirstEol(shIn) > 0
    /\ shIn' = Drop(shIn, FirstEol(shIn) + 1)
    /\ buf' = buf \o Onlcr(<<CH_O, CH_K, LF>>)
    /\ shState' = "prompting"
    /\ UNCHANGED <<callerVars, before, after, sent, killed, shAlive, shPS1,
                   shCont, shEcho, shAcc, files, histVars>>

\* the remote process ends and the stream closes (an end while no operation
\* is in flight is seen by the module as an end at the start of the next one)
ShellDie ==
    /\ UNCHANGED notSessVars
    /\ shAlive
    /\ pc \notin {"start", "idle", "failed", "closed"}
    /\ Dead
    /\ UNCHANGED <<callerVars, pipeVars, files, histVars>>

BootNext ==
    \/ OpenShellSpawn \/ BootDefaultPrompt \/ BootEchoOff \/ BootSentinel
    \/ BootTimeout \/ BootEof \/ OpenShellRaise

RunNext ==
    \/ GetCommandPrompt \/ SendCommand
    \/ NextPrompt \/ NextPromptTimeout \/ NextPromptEof \/ WaitNextPromptRaise

ShellNext == ShellPrompt \/ ShellReadLine \/ ShellDie

\* Spec: open_shell, then run_command_blocking and kill calls
SessNext ==
    \/ BootNext
    \/ CallRun \/ CallKill
    \/ RunNext
    \/ ContinuationPrompt \/ ContinuationTimeout \/ ContinuationEof
    \/ SendCommandRaise \/ ExtraInput
    \/ ShellNext \/ ShellProgramRead

\* SpecFile: open_shell, then echo_file_to_container and
\* cat_file_from_container calls (their commands hold no line break and
\* they pass no extra input)
FileNext ==
    \/ BootNext
    \/ CallEchoFile \/ CallCatFile
    \/ RunNext
    \/ ShellNext

TempIdle ==
    /\ tpc = "off"
    /\ targs = [op |-> "none", path |-> <<>>, data |-> <<>>, temp_dir |-> <<>>]
    /\ tmpfile = [kind |-> "none", data |-> <<>>]
    /\ cfile = [kind |-> "none", data |-> <<>>]
    /\ tflight = NoOutcome
    /\ tresult = <<>>
    /\ tout = NoOutcome
    /\ tcp = <<>>

\* a container just started: no shell is open yet
Init ==
    /\ SessInit
    /\ QuoteIdle
    /\ TempIdle
    /\ PairIdle

Spec == Init /\ [][SessNext]_vars

SpecFile == Init /\ [][FileNext]_vars

-----------------------------------------------------------------------------
(* Properties of Spec *)

\* the 0-based places at which sub occurs in t
Occurrences(t, sub) ==
    {i \in 0..(Len(t) - Len(sub)) : SubSeq(t, i + 1, i + Len(sub)) = sub}

Contains(t, sub) == Occurrences(t, sub) # {}

\* the text of t that precedes the first occurrence of sub
TextBefore(t, sub) ==
    LET first == CHOOSE i \in Occurrences(t, sub) :
                     \A j \in Occurrences(t, sub) : i <= j
    IN  SubSeq(t, 1, first)

\* t without every CR that an LF follows
RECURSIVE WithoutCrBeforeLf(_, _)
WithoutCrBeforeLf(t, i) ==
    IF i > Len(t) THEN <<>>
    ELSE (IF t[i] = CR /\ i < Len(t) /\ t[i + 1] = LF THEN <<>> ELSE <<t[i]>>)
         \o WithoutCrBeforeLf(t, i + 1)

StartsWith(t, p) == Len(t) >= Len(p) /\ SubSeq(t, 1, Len(p)) = p

\* t without its last character
AllButLast(t) == [i \in 1..(Len(t) - 1) |-> t[i]]

\* the first n elements of xs, one after the other
RECURSIVE FirstInputs(_, _)
FirstInputs(xs, n) ==
    IF n = 0 THEN <<>> ELSE FirstInputs(xs, n - 1) \o xs[n]

\* a run_command_blocking call has ended
CallEnded == pc = "idle" /\ callNo > 0

C2_BootstrapAtPrompt ==
    /\ (pc = "idle" /\ callNo = 0) =>
           /\ after = PStr(top_level_ps1)
           /\ session = ShellInterface("pipe", top_level_ps1)
           /\ buf = <<>>
    /\ (CallEnded /\ callNo = 1 /\ call.command = StrCmd(<<W_ECHO_OK>>)
        /\ call.strip /\ outcome.kind = "return") =>
           outcome.text = <<CH_O, CH_K>>

\* C2 witness: the first call on a new session was `echo ok` and it returned
C2_Witness ==
    /\ CallEnded
    /\ callNo = 1
    /\ call.command = StrCmd(<<W_ECHO_OK>>)
    /\ outcome = Returned(<<CH_O, CH_K>>)

\* C3: a wait of run_command_blocking (for a continuation prompt or for the
\* sentinel) that times out ends the call with ShellTimeout, one that meets
\* the end of the stream ends it with ShellFailure, never the other way
\* round, and the message holds the command text that was sent.
C3_FailurePolicy ==
    /\ (CallEnded /\ exc.kind = "TIMEOUT") => outcome.kind = "ShellTimeout"
    /\ (CallEnded /\ exc.kind = "EOF") => outcome.kind = "ShellFailure"
    /\ (CallEnded /\ outcome.kind = "ShellTimeout") => exc.kind = "TIMEOUT"
    /\ (CallEnded /\ outcome.kind = "ShellFailure") => exc.kind = "EOF"
    /\ (CallEnded /\ outcome.kind \in {"ShellTimeout", "ShellFailure"}) =>
           /\ exc.phase \in {"send", "wait"}
           /\ Contains(outcome.text, CallText)
           /\ StartsWith(sent, CallText \o <<LF>>)

\* C3 witness: a session whose first call timed out met the end of the
\* stream in a later call
C3_Witness ==
    /\ CallEnded
    /\ hFailedKind = "ShellTimeout"
    /\ callNo > hFailedAt
    /\ exc.kind = "EOF"
    /\ outcome.kind = "ShellFailure"

\* C4: when a wait of open_shell times out or meets the end of the stream,
\* the pipe is killed, ShellTimeout (timeout) or ShellFailure (end of stream)
\* is raised and no ShellInterface is returned; a ShellInterface is returned
\* only after the sentinel was matched, on a pipe open_shell has not killed
\* and on which it has seen no end of stream.
C4_BootstrapFailure ==
    /\ (pc = "failed" /\ exc.kind # "none") =>
           /\ killed
           /\ ~shAlive
           /\ session = NoSession
           /\ outcome.kind = (IF exc.kind = "TIMEOUT" THEN "ShellTimeout"
                              ELSE "ShellFailure")
    /\ pc \in {"start", "boot1", "boot2", "boot3", "boot_except", "failed"} =>
           session = NoSession
    /\ (pc = "idle" /\ callNo = 0) =>
           /\ session # NoSession
           /\ after = PStr(session.prompt)
           /\ exc.kind = "none"
           /\ ~killed

\* C4 witness: open_shell met the end of the stream, killed the pipe and
\* raised ShellFailure with the output that came before
C4_Witness ==
    /\ pc = "failed"
    /\ exc.kind = "EOF"
    /\ killed
    /\ outcome.kind = "ShellFailure"
    /\ Len(outcome.text) > 1

\* a call made on the session after a call on it raised ShellTimeout
LaterCallAfterTimeout == hFailedKind = "ShellTimeout" /\ callNo > hFailedAt

\* C5 as stated: after ShellTimeout the session is marked unusable and a
\* later run_command_blocking on it is not executed against the stream.
C5_MarkedUnusable ==
    /\ hFailedKind = "ShellTimeout" => session # ShellInterface("pipe", top_level_ps1)
    /\ LaterCallAfterTimeout => sent = <<>>

\* C5: a wait of run_command_blocking that times out ends the call with
\* ShellTimeout; the raise changes neither field of the ShellInterface, and a
\* later run_command_blocking on it is carried out on the same stream like
\* any other: its command line is written whenever the stream is open.
C5_TimeoutLeavesSession ==
    /\ (CallEnded /\ exc.kind = "TIMEOUT") => outcome.kind = "ShellTimeout"
    /\ hFailedKind = "ShellTimeout" => session = ShellInterface("pipe", top_level_ps1)
    /\ (LaterCallAfterTimeout /\ pc \in {"cont", "extra", "wait"}) =>
           StartsWith(sent, CallText \o <<LF>>)
    /\ (LaterCallAfterTimeout /\ CallEnded) =>
           \/ StartsWith(sent, CallText \o <<LF>>)
           \/ outcome.kind = "BrokenPipeError" /\ ~shAlive

\* C5 witness: the call after a ShellTimeout wrote its command and returned
C5_Witness ==
    /\ LaterCallAfterTimeout
    /\ CallEnded
    /\ sent = CallText \o <<LF>>
    /\ outcome.kind = "return"

\* C6: when run_command_blocking raises ShellTimeout or ShellFailure, nothing
\* has been written to the stream since the wait that failed and the pipe
\* has not been killed; the module kills a pipe only in a failing open_shell
\* and in kill().
C6_NoRetryNoClose ==
    /\ (CallEnded /\ outcome.kind \in {"ShellTimeout", "ShellFailure"}) =>
           /\ Len(sent) = exc.sent
           /\ ~killed
    /\ pc \in {"send_except", "wait_except"} => (Len(sent) = exc.sent /\ ~killed)
    /\ killed => (pc = "failed" \/ hKillCalls > 0)
    /\ (pc # "closed" /\ callNo > 0) => ~killed

\* C6 witness: a call that had written its command met the end of the stream
\* in its final wait and raised ShellFailure
C6_Witness ==
    /\ CallEnded
    /\ callNo = 1
    /\ exc.phase = "wait"
    /\ outcome.kind = "ShellFailure"
    /\ sent # <<>>
    /\ ~killed

\* C7: the extra inputs are written as they are and in list order, after the
\* command line and the acknowledgement of its continuation prompts and
\* before the final wait; none is written when sending the command failed.
C7_ExtraInputs ==
    LET line == CallText \o <<LF>>
        all == Len(call.extra_inputs)
    IN  /\ pc \in {"cont", "send_except"} => sent = line
        /\ (CallEnded /\ exc.phase = "send") => sent = line
        /\ pc = "extra" =>
               (nleft = 0 /\ sent = line \o FirstInputs(call.extra_inputs, xi))
        /\ pc \in {"wait", "wait_except"} =>
               (nleft = 0 /\ sent = line \o FirstInputs(call.extra_inputs, all))
        /\ (CallEnded /\ (exc.phase = "wait" \/ outcome.kind = "return")) =>
               sent = line \o FirstInputs(call.extra_inputs, all)

\* C7 witness: a command of two lines with two extra inputs stands at its
\* final wait
C7_Witness ==
    /\ pc = "wait"
    /\ n_newlines(CallText) = 1
    /\ call.extra_inputs = << <<CH_K>>, <<LF>> >>
    /\ sent = CallText \o <<LF, CH_K, LF>>

\* the command lines open_shell writes
BootCommands ==
    { SttyLine, <<W_PS1_EQ, DQUOTE, DQUOTE>>, <<W_CONDA>>,
      <<W_PS1_EQ, DQUOTE>> \o top_level_ps1 \o <<DQUOTE>> }

\* open_shell has raised
OpenShellFailed == pc = "failed" /\ callNo = 0

\* C13 as stated: every ShellTimeout, that of a bootstrap wait included,
\* holds the text of the command that was in flight.
C13_EveryTimeoutNamesCommand ==
    /\ (CallEnded /\ outcome.kind = "ShellTimeout") =>
           Contains(outcome.text, CallText)
    /\ (OpenShellFailed /\ outcome.kind = "ShellTimeout" /\ sent # <<>>) =>
           \E c \in BootCommands : Contains(outcome.text, c)

\* C13: every ShellTimeout raised by run_command_blocking holds the text of
\* the command that was in flight, after the words that name the phase; the
\* ShellTimeout of open_shell holds the fixed words 'Timeout while
\* initializing shell.' and nothing of what was sent.
C13_TimeoutText ==
    /\ (CallEnded /\ outcome.kind = "ShellTimeout") =>
           /\ StartsWith(sent, CallText \o <<LF>>)
           /\ outcome.text = (IF exc.phase = "send" THEN <<M_SEND_TIMEOUT>>
                              ELSE <<M_WAIT_TIMEOUT>>) \o CallText
    /\ (OpenShellFailed /\ outcome.kind = "ShellTimeout") =>
           outcome.text = <<M_INIT_TIMEOUT>>

\* C13 witness: open_shell timed out after it had written `stty -echo`
C13_Witness ==
    /\ OpenShellFailed
    /\ sent = SttyLine \o <<LF>>
    /\ outcome = Raised("ShellTimeout", <<M_INIT_TIMEOUT>>)


\* C14 as stated: every ShellFailure holds the output captured from the
\* stream before the failure.
C14_EveryFailureHoldsOutput ==
    ((CallEnded \/ OpenShellFailed) /\ outcome.kind = "ShellFailure") =>
        (before.str /\ Contains(outcome.text, before.text))

\* C14: the ShellFailure of open_shell holds the output captured before the
\* end of the stream; a ShellFailure raised while a command is sent or
\* executed holds the words that name the phase and the command text, and
\* not the output captured.
C14_FailureText ==
    /\ (OpenShellFailed /\ outcome.kind = "ShellFailure") =>
           /\ before.str
           /\ outcome.text = <<M_OPEN_FAILED>> \o before.text
    /\ (CallEnded /\ outcome.kind = "ShellFailure") =>
           outcome.text = (IF exc.phase = "send" THEN <<M_SEND_CLOSED>>
                           ELSE <<M_WAIT_CLOSED>>) \o CallText

\* C14 witness: the stream ended during the final wait after some output,
\* and the ShellFailure holds the command and not that output
C14_Witness ==
    /\ CallEnded
    /\ outcome = Raised("ShellFailure", <<M_WAIT_CLOSED>> \o CallText)
    /\ before.str
    /\ before.text # <<>>
    /\ ~Contains(outcome.text, before.text)


\* the sentinel that ended the last wait was in the stream already when the
\* command line of the call was written
StaleSentinelMatched ==
    /\ Contains(hBuf, session.prompt)
    /\ ExactIdx(hBuf, session.prompt) + Len(session.prompt) <= hOld

\* C16: when run_command_blocking writes its command line the unread stream
\* holds no sentinel any more, and the wait that follows matches a sentinel
\* that was printed after the command line was written, never one that was
\* buffered before.
C16_StaleSentinelsCollapsed ==
    /\ pc = "send" => ~Contains(buf, session.prompt)
    /\ (CallEnded /\ outcome.kind = "return") => ~StaleSentinelMatched


\* how many times sub occurs in t
Count(t, sub) == Cardinality(Occurrences(t, sub))

\* run_command_blocking has left __send_command behind without an exception
CommandLineAcknowledged ==
    \/ pc \in {"extra", "wait", "wait_except"}
    \/ CallEnded /\ outcome.kind = "return"

\* the line breaks of a text when a CR LF pair is one line break
LineBreaksPairwise(t) ==
    Count(t, <<CR>>) + Count(t, <<LF>>) - Count(t, <<CR, LF>>)

\* C17 as stated: after the command line, run_command_blocking consumes
\* exactly as many continuation prompts as the command holds line breaks, a
\* CR LF pair being one line break, before it waits for the sentinel.
C17_AcksPerLineBreak ==
    /\ pc = "cont" => hAcks < LineBreaksPairwise(CallText)
    /\ CommandLineAcknowledged => hAcks = LineBreaksPairwise(CallText)

\* C17: after the command line, run_command_blocking consumes exactly as
\* many continuation prompts as the command holds CR and LF characters, a
\* CR LF pair being two, before it waits for the sentinel: the wait never
\* starts with fewer consumed, and no more are awaited.
C17_AcksPerCrAndLf ==
    /\ pc = "cont" =>
           hAcks < Count(CallText, <<CR>>) + Count(CallText, <<LF>>)
    /\ CommandLineAcknowledged =>
           hAcks = Count(CallText, <<CR>>) + Count(CallText, <<LF>>)

\* C17 witness: a command with a CR LF pair inside quotes returned after
\* two continuation prompts
C17_Witness ==
    /\ CallEnded
    /\ outcome.kind = "return"
    /\ CallText = <<W_PROG, QUOTE, CR, LF, QUOTE>>
    /\ hAcks = 2


\* what open_shell writes when all goes well, in the order of lines 224-231
BootScript ==
    <<W_STTY, LF, W_PS1_EQ, DQUOTE, DQUOTE, LF, W_CONDA, LF, W_PS1_EQ, DQUOTE>>
    \o top_level_ps1 \o <<DQUOTE, LF>>

\* open_shell is running or has just ended
InOpenShell == callNo = 0 /\ pc \notin {"start", "closed"}

\* C18 as stated: open_shell writes its commands in the fixed order, and
\* every command it has written was let through by a successful wait of
\* its own, made after the command before it was written.
C18_EveryStepGated ==
    InOpenShell =>
        /\ StartsWith(BootScript, sent)
        /\ Count(sent, <<LF>>) <= hMatches

\* C18: open_shell writes its commands in the fixed order `stty -echo`,
\* `PS1=""`, the conda line, `PS1="<sentinel>"`; the first is written only
\* after a successful wait for the default prompt, the other three are
\* written together, with no wait between them, only after a second
\* successful wait for the default prompt; and a session is returned only
\* after a third successful wait, for the sentinel, with all four written.
C18_BootstrapOrder ==
    InOpenShell =>
        /\ StartsWith(BootScript, sent)
        /\ Count(sent, <<LF>>) \in {0, 1, 4}
        /\ Count(sent, <<LF>>) >= 1 => hMatches >= 1
        /\ Count(sent, <<LF>>) > 1 => hMatches >= 2
        /\ session # NoSession => (hMatches = 3 /\ sent = BootScript)

\* C18 witness: open_shell returned a session after its three waits
C18_Witness ==
    /\ InOpenShell
    /\ pc = "idle"
    /\ session # NoSession
    /\ hMatches = 3
    /\ sent = BootScript


\* a command text as the shell has it once it has read all its lines
AsReadByShell(t) == [i \in 1..Len(t) |-> IF t[i] = CR THEN LF ELSE t[i]]

\* what the command of call c prints, run on its own at the sentinel prompt
\* with the input it asks for
PrintedBy(c) ==
    { IF e.ask THEN e.out \o <<CH_O, CH_K, LF>> ELSE e.out :
        e \in ShellRun(AsReadByShell(command_to_string(c.command)),
                       top_level_ps1, FALSE, files) }

\* the call that just returned gave back what its own command printed
ReturnedOwnOutput ==
    outcome.text \in {CommandResult(Onlcr(o), call.strip) : o \in PrintedBy(call)}

\* C19: on a freshly opened session, as long as every run_command_blocking
\* call has returned without error, the call that just returned gave back
\* the output of its own command and nothing of any other.
C19_RequestResponseAligned ==
    (CallEnded /\ outcome.kind = "return" /\ hFailedAt = 0) => ReturnedOwnOutput

\* the first call on a fresh session gives back the output of its own command
FirstCallAligned ==
    (CallEnded /\ outcome.kind = "return" /\ callNo = 1) => ReturnedOwnOutput


\* the tokens each passed through quote_string, with one space between
\* every two of them
RECURSIVE QuotedTokens(_)
QuotedTokens(toks) ==
    IF toks = <<>> THEN <<>>
    ELSE QuotedTokens(AllButLast(toks))
         \o (IF Len(toks) > 1 THEN <<SPACE>> ELSE <<>>)
         \o quote_string(toks[Len(toks)])

\* run_command_blocking has written its command line
CommandLineWritten == callNo > 0 /\ call.op = "run" /\ sent # <<>>

\* C20: the line written for a list command is its tokens, each passed
\* through quote_string and joined by single spaces, then the line end; it
\* holds no raw CR or LF, so no continuation prompt is awaited or consumed
\* and the call goes from the send to the wait for the sentinel; the line
\* written for a string command is the string unchanged.
C20_ListCommandLine ==
    CommandLineWritten =>
        IF call.command.list
        THEN /\ StartsWith(sent, QuotedTokens(call.command.toks) \o <<LF>>)
             /\ Count(AllButLast(sent), <<CR>>) = 0
             /\ Count(AllButLast(sent), <<LF>>) = 0
             /\ pc \notin {"cont", "send_except"}
             /\ nleft = 0
             /\ hAcks = 0
        ELSE StartsWith(sent, call.command.text \o <<LF>>)

\* C20 witness: a list command with a token that holds CR, LF and a quote
\* was written on one line and returned
C20_Witness ==
    /\ CallEnded
    /\ outcome.kind = "return"
    /\ call.command = ListCmd(<< <<W_PROG>>, <<CR, LF, QUOTE>> >>)
    /\ sent = <<QUOTE, W_PROG, QUOTE, SPACE>> \o quote_string(<<CR, LF, QUOTE>>) \o <<LF>>
    /\ hAcks = 0


-----------------------------------------------------------------------------
(* Properties of SpecFile *)

\* cat_file_from_container returned on a session all of whose calls
\* returned, the last echo_file_to_container among them
CatAfterEcho ==
    /\ CallEnded
    /\ call.op = "cat_file"
    /\ outcome.kind = "return"
    /\ hEcho.set
    /\ hFailedAt = 0

\* C9: echo_file_to_container(path, t) followed by
\* cat_file_from_container(path) on the same session returns t, unchanged
\* but for CR LF pairs that the output layer may have made LF.
C9_EchoCatRoundTrip ==
    CatAfterEcho =>
        outcome.text \in {hEcho.text, WithoutCrBeforeLf(hEcho.text, 1)}

\* the same for texts without NUL, which come back exactly as written
EchoCatRoundTripNoNul ==
    (CatAfterEcho /\ \A i \in 1..Len(hEcho.text) : hEcho.text[i] # NUL) =>
        outcome.text = hEcho.text

-----------------------------------------------------------------------------
(* SpecQuote: quote_string applied to every string within the bounds *)

MaxQuoteLen == 3

QuoteAlphabet == {NUL, TAB, LF, QUOTE, CH_A, CH_HIGH}

RECURSIVE StringsUpTo(_, _)
StringsUpTo(alphabet, n) ==
    IF n = 0 THEN {<<>>}
    ELSE LET shorter == StringsUpTo(alphabet, n - 1)
         IN  shorter \cup {Append(s, c) : s \in shorter, c \in alphabet}

QuoteInit ==
    /\ SessInit
    /\ TempIdle
    /\ PairIdle
    /\ qpc = "in"
    /\ qs \in StringsUpTo(QuoteAlphabet, MaxQuoteLen)
    /\ qout = <<>>
    /\ qval = <<>>

QuoteCall ==
    /\ UNCHANGED notQuoteVars
    /\ qpc = "in"
    /\ qout' = quote_string(qs)
    /\ qpc' = "quoted"
    /\ UNCHANGED <<qs, qval>>

QuoteEvaluate ==
    /\ UNCHANGED notQuoteVars
    /\ qpc = "quoted"
    /\ qval' = BashWord(qout)
    /\ qpc' = "evaluated"
    /\ UNCHANGED <<qs, qout>>

QuoteNext == QuoteCall \/ QuoteEvaluate

SpecQuote == QuoteInit /\ [][QuoteNext]_vars

\* C8: for every string s, the word the target shell makes of
\* quote_string(s) is s itself, and quote_string(s) holds no raw character
\* 0..31 and no character outside a quoted segment.
C8_QuoteRoundTrip ==
    qpc = "evaluated" =>
        /\ qval = qs
        /\ \A i \in 1..Len(qout) : qout[i] >= NControl
        /\ UnquotedFrom(qout, 1, "plain") = 0
        /\ ClosedFrom(qout, 1, "plain")

\* the same with NUL left out of s
QuoteRoundTripNoNul ==
    (qpc = "evaluated" /\ \A i \in 1..Len(qs) : qs[i] # NUL) =>
        /\ qval = qs
        /\ \A i \in 1..Len(qout) : qout[i] >= NControl
        /\ UnquotedFrom(qout, 1, "plain") = 0
        /\ ClosedFrom(qout, 1, "plain")

-----------------------------------------------------------------------------
(* SpecTemp: one read_binary_file_with_temp or write_binary_file_with_temp *)

\* a check that lets the streaming marker through
check_cp_host_path_no_marker(path) ==
    LET colon_index == PyFind(path, <<COLON>>, 0)
    IN  IF colon_index # -1 /\ colon_index # 1
        THEN Raised("DockerRuntimeError", <<M_SPECIFIER>>)
        ELSE NoOutcome

\* check_cp_host_path_(path): the exception it raises, NoOutcome when none
check_cp_host_path_(path) ==
    IF path = <<DASH>>
    THEN Raised("DockerRuntimeError", <<M_STREAMING>>)
    ELSE LET colon_index == PyFind(path, <<COLON>>, 0)
         IN  IF colon_index # -1 /\ colon_index # 1
             THEN Raised("DockerRuntimeError", <<M_SPECIFIER>>)
             ELSE NoOutcome

\* run_command_with_check on a subprocess that ended with a nonzero code
CommandFailed == Raised("DockerRuntimeError", <<M_COMMAND_FAILED, W_STDERR>>)

\* os.path.join(temp_dir, name) for a name that is not absolute
PathJoin(dir, name) ==
    IF dir = <<>> \/ dir[Len(dir)] = SLASH THEN dir \o name
    ELSE dir \o <<SLASH>> \o name

\* __tmp_filename(temp_dir)
tmp_filename(temp_dir) == PathJoin(temp_dir, <<W_TMP_NAME>>)

\* what a path holds: nothing, a file, a directory, or a symbolic link whose
\* target the host does not have
Nothing == [kind |-> "none", data |-> <<>>]
File(d) == [kind |-> "file", data |-> d]
Directory == [kind |-> "dir", data |-> <<>>]
Link == [kind |-> "link", data |-> <<>>]

\* os.path.exists and os.path.isdir follow symbolic links
PathExists(f) == f.kind \in {"file", "dir"}
PathIsDir(f) == f.kind = "dir"

\* the data of the calls and of the container's files
Datas == { <<>>, <<CH_A>>, <<NUL, CH_A, LF>> }

\* the beginnings of d: what an interrupted write or copy leaves
Prefixes(d) == {SubSeq(d, 1, n) : n \in 0..Len(d)}

ContainerPaths == { <<SLASH, W_DATA>> }

\* values of temp_dir: the default '/tmp/', the same without its final
\* slash, the current directory, one with a drive letter, one with a colon
\* further on
TempDirs ==
    { <<SLASH, W_TMP, SLASH>>, <<SLASH, W_TMP>>, <<>>,
      <<CH_A, COLON, SLASH>>, <<SLASH, CH_A, COLON, SLASH>> }

TempArgs(op, path, data, dir) ==
    [op |-> op, path |-> path, data |-> data, temp_dir |-> dir]

TempInit ==
    /\ SessInit
    /\ QuoteIdle
    /\ PairIdle
    /\ tpc = "idle"
    /\ targs = TempArgs("none", <<>>, <<>>, <<>>)
    /\ tmpfile = Nothing
    /\ cfile \in {Nothing, Directory, Link} \cup {File(d) : d \in Datas}
    /\ tflight = NoOutcome
    /\ tresult = <<>>
    /\ tout = NoOutcome
    /\ tcp = <<>>

\* an exception leaves the try block
Leaves(e) ==
    /\ tflight' = e
    /\ tpc' = "finally"

\* read_binary_file_with_temp(container_path, temp_dir): line 176
ReadBinaryFileWithTemp ==
    /\ UNCHANGED notTempVars
    /\ tpc = "idle"
    /\ \E p \in ContainerPaths, d \in TempDirs :
           targs' = TempArgs("read", p, <<>>, d)
    /\ tpc' = "pull_check"
    /\ UNCHANGED <<tmpfile, cfile, tflight, tresult, tout, tcp>>

\* pull_file, line 149
PullFileCheck ==
    /\ UNCHANGED notTempVars
    /\ tpc = "pull_check"
    /\ LET e == check_cp_host_path_(tmp_filename(targs.temp_dir))
       IN  IF e # NoOutcome THEN Leaves(e)
           ELSE tpc' = "pull_copy" /\ UNCHANGED tflight
    /\ UNCHANGED <<targs, tmpfile, cfile, tresult, tout, tcp>>

\* what `docker cp` may leave at the host path when it fails
PulledInPart ==
    {Nothing}
    \cup (IF cfile.kind = "file" THEN {File(d) : d \in Prefixes(cfile.data)} ELSE {})
    \cup (IF cfile.kind = "dir" THEN {Directory} ELSE {})

\* pull_file, lines 150-154: the copy ends well, or run_command_with_check
\* raises
PullFileCopy ==
    /\ UNCHANGED notTempVars
    /\ tpc = "pull_copy"
    /\ tcp' = Append(tcp, tmp_filename(targs.temp_dir))
    /\ \/ /\ cfile # Nothing
          /\ tmpfile' = cfile
          /\ tpc' = "isdir"
          /\ UNCHANGED tflight
       \/ /\ tmpfile' \in PulledInPart
          /\ Leaves(CommandFailed)
    /\ UNCHANGED <<targs, cfile, tresult, tout>>

\* a removal that leaves the directory where it is
RmtreeSkipped(f) == f

\* shutil.rmtree(tmp_filename), line 179, when it does its work
Rmtree(f) == Nothing

\* read_binary_file_with_temp, lines 178-180; shutil.rmtree may itself fail
\* and leave the directory
ReadIsDir ==
    /\ UNCHANGED notTempVars
    /\ tpc = "isdir"
    /\ IF PathIsDir(tmpfile)
       THEN \/ /\ tmpfile' = Rmtree(tmpfile)
               /\ Leaves(Raised("DockerRuntimeError",
                                <<M_REQUESTED>> \o targs.path \o <<M_IS_DIRECTORY>>))
            \/ /\ Leaves(Raised("OSError", <<>>))
               /\ UNCHANGED tmpfile
       ELSE /\ tpc' = "open"
            /\ UNCHANGED <<tmpfile, tflight>>
    /\ UNCHANGED <<targs, cfile, tresult, tout, tcp>>

\* read_binary_file_with_temp, line 181
ReadOpen ==
    /\ UNCHANGED notTempVars
    /\ tpc = "open"
    /\ \/ /\ tmpfile.kind = "file"
          /\ tresult' = tmpfile.data
          /\ tpc' = "finally"
          /\ UNCHANGED tflight
       \/ /\ tmpfile.kind = "file"
          /\ Leaves(Raised("OSError", <<>>))
          /\ UNCHANGED tresult
       \/ /\ tmpfile.kind # "file"
          /\ Leaves(Raised("FileNotFoundError", <<>>))
          /\ UNCHANGED tresult
    /\ UNCHANGED <<targs, tmpfile, cfile, tout, tcp>>

\* write_binary_file_with_temp(container_path, data, temp_dir): line 196
WriteBinaryFileWithTemp ==
    /\ UNCHANGED notTempVars
    /\ tpc = "idle"
    /\ \E p \in ContainerPaths, b \in Datas, d \in TempDirs :
           targs' = TempArgs("write", p, b, d)
    /\ tpc' = "open_write"
    /\ UNCHANGED <<tmpfile, cfile, tflight, tresult, tout, tcp>>

\* write_binary_file_with_temp, line 198: the file is written, or open
\* fails, or write fails on the way
WriteOpen ==
    /\ UNCHANGED notTempVars
    /\ tpc = "open_write"
    /\ \/ /\ tmpfile' = File(targs.data)
          /\ tpc' = "push_check"
          /\ UNCHANGED tflight
       \/ /\ tmpfile' \in {Nothing} \cup {File(d) : d \in Prefixes(targs.data)}
          /\ Leaves(Raised("OSError", <<>>))
    /\ UNCHANGED <<targs, cfile, tresult, tout, tcp>>

\* push_file, line 137
PushFileCheck ==
    /\ UNCHANGED notTempVars
    /\ tpc = "push_check"
    /\ LET e == check_cp_host_path_(tmp_filename(targs.temp_dir))
       IN  IF e # NoOutcome THEN Leaves(e)
           ELSE tpc' = "push_copy" /\ UNCHANGED tflight
    /\ UNCHANGED <<targs, tmpfile, cfile, tresult, tout, tcp>>

\* push_file, lines 138-142
PushFileCopy ==
    /\ UNCHANGED notTempVars
    /\ tpc = "push_copy"
    /\ tcp' = Append(tcp, tmp_filename(targs.temp_dir))
    /\ \/ /\ cfile' = IF cfile.kind = "dir" THEN cfile ELSE File(tmpfile.data)
          /\ tpc' = "finally"
          /\ UNCHANGED tflight
       \/ /\ Leaves(CommandFailed)
          /\ UNCHANGED cfile
    /\ UNCHANGED <<targs, tmpfile, tresult, tout>>

\* the finally clause (lines 182-185, 200-201): os.remove raises on a
\* directory, and its exception takes the place of the one in flight
TempFinally ==
    /\ UNCHANGED notTempVars
    /\ tpc = "finally"
    /\ tpc' = "done"
    /\ IF ~PathExists(tmpfile)
       THEN /\ UNCHANGED tmpfile
            /\ tout' = IF tflight # NoOutcome THEN tflight
                       ELSE Returned(IF targs.op = "read" THEN tresult ELSE <<>>)
       ELSE IF PathIsDir(tmpfile)
       THEN /\ UNCHANGED tmpfile
            /\ tout' = Raised("IsADirectoryError", <<>>)
       ELSE /\ tmpfile' = Nothing
            /\ tout' = IF tflight # NoOutcome THEN tflight
                       ELSE Returned(IF targs.op = "read" THEN tresult ELSE <<>>)
    /\ UNCHANGED <<targs, cfile, tflight, tresult, tcp>>

TempNext ==
    \/ ReadBinaryFileWithTemp \/ PullFileCheck \/ PullFileCopy
    \/ ReadIsDir \/ ReadOpen
    \/ WriteBinaryFileWithTemp \/ WriteOpen \/ PushFileCheck \/ PushFileCopy
    \/ TempFinally

SpecTemp == TempInit /\ [][TempNext]_vars

\* C10: when read_binary_file_with_temp or write_binary_file_with_temp has
\* returned or raised, nothing is left at the temporary path, and an error
\* the caller sees is the one that left the try block.
C10_NoTempLeftBehind ==
    tpc = "done" =>
        /\ tmpfile = Nothing
        /\ tflight # NoOutcome => tout = tflight
        /\ tflight = NoOutcome => tout.kind = "return"

\* the same for the calls during which no directory came to lie at the
\* temporary path and no dangling link was pulled
TempRemovedWhenFile ==
    (tpc = "done" /\ tmpfile.kind \notin {"dir", "link"}) =>
        /\ tmpfile = Nothing
        /\ tflight # NoOutcome => tout = tflight
        /\ tflight = NoOutcome => tout.kind = "return"

\* a read of a directory during which the copy ran and ended well and
\* shutil.rmtree did its work
DirectoryPulled ==
    /\ targs.op = "read"
    /\ cfile = Directory
    /\ tcp # <<>>
    /\ tflight # CommandFailed
    /\ tflight.kind # "OSError"

-----------------------------------------------------------------------------
(* SpecCopy: one push_file or pull_file with a host path of the caller *)

MaxPathLen == 3

\* the characters host paths are made of
PathAlphabet == {DASH, COLON, SLASH, CH_A}

HostPaths == StringsUpTo(PathAlphabet, MaxPathLen)

CopyArgs(op, host_path, container_path) ==
    [op |-> op, host_path |-> host_path, container_path |-> container_path]

CopyInit ==
    /\ SessInit
    /\ QuoteIdle
    /\ PairIdle
    /\ tpc = "idle"
    /\ targs = CopyArgs("none", <<>>, <<>>)
    /\ tmpfile = Nothing
    /\ cfile = Nothing
    /\ tflight = NoOutcome
    /\ tresult = <<>>
    /\ tout = NoOutcome
    /\ tcp = <<>>

\* push_file(host_path, container_path), line 136
PushFile ==
    /\ UNCHANGED notTempVars
    /\ tpc = "idle"
    /\ \E h \in HostPaths, p \in ContainerPaths : targs' = CopyArgs("push", h, p)
    /\ tpc' = "check"
    /\ UNCHANGED <<tmpfile, cfile, tflight, tresult, tout, tcp>>

\* pull_file(container_path, host_path), line 148
PullFile ==
    /\ UNCHANGED notTempVars
    /\ tpc = "idle"
    /\ \E h \in HostPaths, p \in ContainerPaths : targs' = CopyArgs("pull", h, p)
    /\ tpc' = "check"
    /\ UNCHANGED <<tmpfile, cfile, tflight, tresult, tout, tcp>>

\* lines 137 and 149: self.check_cp_host_path_(host_path)
HostPathCheck ==
    /\ UNCHANGED notTempVars
    /\ tpc = "check"
    /\ LET e == check_cp_host_path_(targs.host_path)
       IN  IF e # NoOutcome
           THEN tout' = e /\ tpc' = "done"
           ELSE tpc' = "copy" /\ UNCHANGED tout
    /\ UNCHANGED <<targs, tmpfile, cfile, tflight, tresult, tcp>>

\* lines 138-142 and 150-154: run_command_with_check on the copy; what the
\* copy does to the files on either side is not followed here
CopySubprocess ==
    /\ UNCHANGED notTempVars
    /\ tpc = "copy"
    /\ tcp' = Append(tcp, targs.host_path)
    /\ tout' \in {Returned(<<>>), CommandFailed}
    /\ tpc' = "done"
    /\ UNCHANGED <<targs, tmpfile, cfile, tflight, tresult>>

CopyNext == PushFile \/ PullFile \/ HostPathCheck \/ CopySubprocess

SpecCopy == CopyInit /\ [][CopyNext]_vars

\* the places (from 1) of the colons of p
ColonPlaces(p) == {i \in 1..Len(p) : p[i] = COLON}

\* p holds a name of one character or more followed by a colon
EmbedsSpecifier(p) == \E i \in ColonPlaces(p) : i >= 2

\* the check raised one of its two errors
RejectedByCheck ==
    tout \in {Raised("DockerRuntimeError", <<M_STREAMING>>),
              Raised("DockerRuntimeError", <<M_SPECIFIER>>)}

\* C12 as stated: push_file and pull_file reject, before the copy is run,
\* the host path `-` and every host path with a name followed by a colon,
\* whatever the length of the name; no such path reaches the copy; a host
\* path whose only colon is a drive-letter colon is not rejected.
C12_RejectsEverySpecifier ==
    /\ (tpc \in {"copy", "done"}
        /\ (targs.host_path = <<DASH>> \/ EmbedsSpecifier(targs.host_path))) =>
           (tpc = "done" /\ RejectedByCheck /\ tcp = <<>>)
    /\ \A i \in DOMAIN tcp : tcp[i] # <<DASH>> /\ ~EmbedsSpecifier(tcp[i])
    /\ (tpc = "done" /\ ColonPlaces(targs.host_path) \subseteq {2}
        /\ targs.host_path # <<DASH>>) => ~RejectedByCheck

\* the first colon of p stands elsewhere than in second place
FirstColonNotSecond(p) ==
    /\ ColonPlaces(p) # {}
    /\ 2 \notin ColonPlaces(p) \/ 1 \in ColonPlaces(p)

\* C12: push_file and pull_file reject with DockerRuntimeError, before the
\* copy is run, the host path `-` and every host path whose first colon is
\* not its second character; every other host path (no colon, or the first
\* colon in second place, as after a drive letter or a name of one
\* character) is handed to the copy as it is, and no rejected path ever is.
C12_HostPathRule ==
    LET h == targs.host_path
        rejects == h = <<DASH>> \/ FirstColonNotSecond(h)
    IN  /\ tpc = "copy" => (~rejects /\ tcp = <<>>)
        /\ (tpc = "done" /\ rejects) => (RejectedByCheck /\ tcp = <<>>)
        /\ (tpc = "done" /\ ~rejects) => (~RejectedByCheck /\ tcp = <<h>>)
        /\ (tpc = "done" /\ h = <<DASH>>) =>
               tout = Raised("DockerRuntimeError", <<M_STREAMING>>)

\* C12 witness: a host path that begins with a name of one character and a
\* colon was handed to the copy
C12_Witness ==
    /\ tpc = "done"
    /\ targs.op = "pull"
    /\ targs.host_path = <<CH_A, COLON, SLASH>>
    /\ tcp = <<targs.host_path>>
    /\ ~RejectedByCheck

-----------------------------------------------------------------------------
(* SpecPair: two ShellInterface objects, each returned by an open_shell of
   its own, on one container or on two, with their run_command_blocking
   calls interleaved step by step; next to them each session's calls run
   with no other session *)

\* calls made in all, over both sessions
MaxPairCalls == 2

Sessions == {1, 2}

W_SI_OTHER == 2000015   \* 'ShellInterface@' and the name of a second container

\* line 222 for the container called name
SentinelOf(name) == <<name, DOLLAR, SPACE>>

\* both sessions made of one PopenSpawn object
PopenSpawnShared(i) == 1

\* line 213: every open_shell makes a PopenSpawn object of its own
PopenSpawn(i) == i

PairCalls ==
    { RunArgs(StrCmd(<<W_PROG>>), <<>>, FALSE),
      RunArgs(StrCmd(<<W_PROG, QUOTE, LF, QUOTE>>), <<>>, TRUE),
      RunArgs(StrCmd(<<W_ASK>>), << <<CH_K>>, <<LF>> >>, TRUE),
      RunArgs(StrCmd(EchoFileCommand(<<W_FILE>>, <<CH_A>>)), <<>>, TRUE),
      RunArgs(StrCmd(CatFileCommand(<<W_FILE>>)), <<>>, FALSE) }

ContainerNames == {W_SI_NAME, W_SI_OTHER}

\* the files of a container no session has written to
FreshFiles == [f \in FileNames |-> NoFile]

\* a ShellInterface as open_shell returns it, with no call made yet
PairSession(pipe, prompt) ==
    [pipe |-> pipe, prompt |-> prompt, pc |-> "idle", call |-> NoCall,
     nleft |-> 0, xi |-> 0, ncalls |-> 0, results |-> <<>>]

\* a stream as open_shell leaves it: the sentinel matched, nothing unread,
\* the shell reading at its prompt
PairStream(prompt) ==
    [buf |-> <<>>, before |-> PStr(<<>>), after |-> PStr(prompt),
     shIn |-> <<>>, shState |-> "reading", shAcc |-> <<>>, shCont |-> FALSE,
     shPS1 |-> prompt]

PairInit ==
    /\ SessInit
    /\ QuoteIdle
    /\ TempIdle
    /\ cname \in [Sessions -> ContainerNames]
    /\ cname[1] = W_SI_NAME
    /\ cfs = [n \in ContainerNames |-> FreshFiles]
    /\ ss = [i \in Sessions |-> PairSession(PopenSpawn(i), SentinelOf(cname[i]))]
    /\ pipes = [q \in Sessions |-> PairStream(SentinelOf(cname[q]))]
    /\ solo = [i \in Sessions |->
                  [m |-> PairSession(PopenSpawn(i), SentinelOf(cname[i])),
                   p |-> PairStream(SentinelOf(cname[i])),
                   fs |-> FreshFiles]]

\* ---- the steps of run_command_blocking on (m, p): a ShellInterface and
\* ---- the stream it holds

\* a successful wait for pat on the stream p
PairMatched(p, pat) ==
    [p EXCEPT !.before = PStr(MatchBefore(p.buf, pat)),
              !.after = PStr(MatchAfter(p.buf, pat)),
              !.buf = MatchRest(p.buf, pat)]

\* line 287
PairSecondPrompt(m, p) ==
    p.after.str /\ PyFind(p.after.text, m.prompt, Len(m.prompt)) # -1

PairAfterSend(m) == IF m.call.extra_inputs = <<>> THEN "wait" ELSE "extra"

PairCan(step, m, p) ==
    CASE step = "gcp"   -> m.pc = "gcp" /\ (PairSecondPrompt(m, p) => PatIdx(p.buf, m.prompt) # -1)
      [] step = "send"  -> m.pc = "send"
      [] step = "cont"  -> m.pc = "cont" /\ PatIdx(p.buf, PS2) # -1
      [] step = "extra" -> m.pc = "extra"
      [] step = "wait"  -> m.pc = "wait" /\ PatIdx(p.buf, m.prompt) # -1

PairDo(step, m, p) ==
    CASE step = "gcp" ->
            IF PairSecondPrompt(m, p)
            THEN [m |-> m, p |-> PairMatched(p, m.prompt)]
            ELSE [m |-> [m EXCEPT !.pc = "send"], p |-> p]
      [] step = "send" ->
            LET text == command_to_string(m.call.command)
            IN  [m |-> [m EXCEPT !.nleft = n_newlines(text),
                                 !.pc = IF n_newlines(text) > 0 THEN "cont"
                                        ELSE PairAfterSend(m)],
                 p |-> [p EXCEPT !.shIn = @ \o SendLine(text)]]
      [] step = "cont" ->
            [m |-> [m EXCEPT !.nleft = @ - 1,
                             !.pc = IF m.nleft = 1 THEN PairAfterSend(m) ELSE "cont"],
             p |-> PairMatched(p, PS2)]
      [] step = "extra" ->
            [m |-> [m EXCEPT !.xi = @ + 1,
                             !.pc = IF m.xi + 1 = Len(m.call.extra_inputs)
                                    THEN "wait" ELSE "extra"],
             p |-> [p EXCEPT !.shIn = @ \o SendRaw(m.call.extra_inputs[m.xi + 1])]]
      [] step = "wait" ->
            [m |-> [m EXCEPT !.pc = "idle",
                             !.results = Append(@, CommandResult(
                                 MatchBefore(p.buf, m.prompt), m.call.strip))],
             p |-> PairMatched(p, m.prompt)]

\* session i takes the step, on the stream it holds; so does its run alone
PairStep(i, step) ==
    /\ UNCHANGED notPairVars
    /\ PairCan(step, ss[i], pipes[ss[i].pipe])
    /\ LET r == PairDo(step, ss[i], pipes[ss[i].pipe])
       IN  /\ ss' = [ss EXCEPT ![i] = r.m]
           /\ pipes' = [pipes EXCEPT ![ss[i].pipe] = r.p]
    /\ solo' = [solo EXCEPT ![i] =
                   IF PairCan(step, solo[i].m, solo[i].p)
                   THEN LET r == PairDo(step, solo[i].m, solo[i].p)
                        IN  [m |-> r.m, p |-> r.p, fs |-> solo[i].fs]
                   ELSE @]
    /\ UNCHANGED <<cname, cfs>>

\* run_command_blocking(command, extra_inputs, strip_final_newline) on session i
PairCall ==
    /\ UNCHANGED notPairVars
    /\ ss[1].ncalls + ss[2].ncalls < MaxPairCalls
    /\ \E i \in Sessions, a \in PairCalls :
          /\ ss[i].pc = "idle"
          /\ LET c == [op |-> "run", command |-> a.command,
                       extra_inputs |-> a.extra_inputs, strip |-> a.strip,
                       arg |-> <<>>]
                 started(m) == [m EXCEPT !.pc = "gcp", !.call = c, !.nleft = 0,
                                         !.xi = 0, !.ncalls = @ + 1]
             IN  /\ ss' = [ss EXCEPT ![i] = started(@)]
                 /\ solo' = [solo EXCEPT ![i].m =
                                IF @.pc = "idle" THEN started(@) ELSE @]
    /\ UNCHANGED <<pipes, cname, cfs>>

PairGetCommandPrompt == \E i \in Sessions : ss[i].pc = "gcp" /\ PairStep(i, "gcp")

PairSendCommand == \E i \in Sessions : ss[i].pc = "send" /\ PairStep(i, "send")

PairContinuationPrompt == \E i \in Sessions : ss[i].pc = "cont" /\ PairStep(i, "cont")

PairExtraInput == \E i \in Sessions : ss[i].pc = "extra" /\ PairStep(i, "extra")

PairNextPrompt == \E i \in Sessions : ss[i].pc = "wait" /\ PairStep(i, "wait")

\* ---- the shell behind a stream

PairShellCan(step, p) ==
    CASE step = "prompt" -> p.shState = "prompting"
      [] step = "read"   -> p.shState = "reading" /\ FirstEol(p.shIn) > 0
      [] step = "input"  -> p.shState = "asking" /\ FirstEol(p.shIn) > 0

\* the complete command the shell has once it reads the next line
PairFull(p) == p.shAcc \o SubSeq(p.shIn, 1, FirstEol(p.shIn) - 1)

\* what running the next line may do on a container with the files fs
\* (nothing, when the line ends no command)
PairEffects(step, p, fs) ==
    IF step = "read" /\ ClosedFrom(PairFull(p), 1, "plain")
    THEN ShellRun(PairFull(p), p.shPS1, FALSE, fs)
    ELSE {ShellEffect(<<>>, p.shPS1, FALSE, fs, FALSE)}

\* of the effects es, the one that prints what e prints, if there is one
PairSameOutput(es, e) ==
    CHOOSE x \in es : (\E y \in es : y.out = e.out) => x.out = e.out

PairShellDo(step, p, e) ==
    CASE step = "prompt" ->
            [p EXCEPT !.buf = @ \o (IF p.shCont THEN PS2 ELSE p.shPS1),
                      !.shState = "reading"]
      [] step = "read" ->
            IF ClosedFrom(PairFull(p), 1, "plain")
            THEN [p EXCEPT !.shIn = Drop(@, FirstEol(@) + 1),
                           !.buf = @ \o Onlcr(e.out),
                           !.shPS1 = e.ps1,
                           !.shState = IF e.ask THEN "asking" ELSE "prompting",
                           !.shAcc = <<>>,
                           !.shCont = FALSE]
            ELSE [p EXCEPT !.shIn = Drop(@, FirstEol(@) + 1),
                           !.shAcc = SendLine(PairFull(p)),
                           !.shCont = TRUE,
                           !.shState = "prompting"]
      [] step = "input" ->
            [p EXCEPT !.shIn = Drop(@, FirstEol(@) + 1),
                      !.buf = @ \o Onlcr(<<CH_O, CH_K, LF>>),
                      !.shState = "prompting"]

\* the shell behind stream q, spawned on the container cname[q], takes the
\* step; so does the shell of the run alone of the session that holds q
PairShellStep(q, step) ==
    /\ UNCHANGED notPairVars
    /\ PairShellCan(step, pipes[q])
    /\ \E e \in PairEffects(step, pipes[q], cfs[cname[q]]) :
          /\ pipes' = [pipes EXCEPT ![q] = PairShellDo(step, @, e)]
          /\ cfs' = [cfs EXCEPT ![cname[q]] = e.files]
          /\ solo' = [i \in Sessions |->
                        IF ss[i].pipe = q /\ PairShellCan(step, solo[i].p)
                        THEN LET se == PairSameOutput(
                                     PairEffects(step, solo[i].p, solo[i].fs), e)
                             IN  [m |-> solo[i].m,
                                  p |-> PairShellDo(step, solo[i].p, se),
                                  fs |-> se.files]
                        ELSE solo[i]]
    /\ UNCHANGED <<ss, cname>>

PairShellPrompt ==
    \E q \in Sessions : pipes[q].shState = "prompting" /\ PairShellStep(q, "prompt")

PairShellReadLine ==
    \E q \in Sessions : pipes[q].shState = "reading" /\ PairShellStep(q, "read")

PairShellProgramRead ==
    \E q \in Sessions : pipes[q].shState = "asking" /\ PairShellStep(q, "input")

PairNext ==
    \/ PairCall \/ PairGetCommandPrompt \/ PairSendCommand
    \/ PairContinuationPrompt \/ PairExtraInput \/ PairNextPrompt
    \/ PairShellPrompt \/ PairShellReadLine \/ PairShellProgramRead

SpecPair == PairInit /\ [][PairNext]_vars

\* where a session stands in its call and in its stream: all of (m, p)
\* but the text of the output read and of the results returned
PairPlace(m, p) ==
    [pipe |-> m.pipe, prompt |-> m.prompt, pc |-> m.pc, call |-> m.call,
     nleft |-> m.nleft, xi |-> m.xi, ncalls |-> m.ncalls,
     returned |-> Len(m.results), after |-> p.after, shIn |-> p.shIn,
     shState |-> p.shState, shAcc |-> p.shAcc, shCont |-> p.shCont,
     shPS1 |-> p.shPS1]

\* the two sessions hold different streams, each with the sentinel of its
\* own container as its prompt
OwnStreamAndSentinel ==
    /\ ss[1].pipe # ss[2].pipe
    /\ \A i \in Sessions : ss[i].prompt = SentinelOf(cname[i])

\* session i and its stream are as its calls made alone have them
SameAsAlone(i) ==
    /\ ss[i] = solo[i].m
    /\ pipes[ss[i].pipe] = solo[i].p

====
